---------------------------- MODULE Spec2Model ----------------------------
(***************************************************************************)
(* Browser screen (BrowserScreen), its URL normaliser (formatUrl) and the  *)
(* embedded content bridge (PlatformWebView / WebWebView).                 *)
(*                                                                         *)
(* A JavaScript string is modelled as the sequence of its UTF-16 code      *)
(* units (naturals), so that trim, includes, split, the protocol regex and *)
(* encodeURIComponent / decodeURIComponent act on what the engine acts on. *)
(***************************************************************************)
EXTENDS Integers, Sequences, FiniteSets, TLC

VARIABLES
    \* pure-function harness
    fmtIn,        \* argument handed to formatUrl
    fmtOut,       \* value formatUrl returned for fmtIn
    fmtPc,        \* "call" before formatUrl has run, "done" after
    \* BrowserScreen (web platform)
    screen,       \* "mounted", or "crashed" once a render effect has thrown
    initialUrl,   \* route parameter url: {} when undefined, else {string}
    url,          \* text of the input field
    currentUrl,   \* Destination handed to the bridge as source.uri
    loading,      \* the screen's loading flag
    error,        \* the screen's error message, or Null
    showWebView,  \* whether the content surface is rendered
    escListeners, \* number of document keydown listeners attached
    fullscreen,   \* whether the document has a fullscreen element
    lastOp,       \* name of the handler that ran last
    \* WebWebView (the bridge on the web platform)
    wMounted,     \* whether a WebWebView instance is mounted
    inst,         \* number of WebWebView instances mounted so far
    wLoading,     \* WebWebView loading state
    wError,       \* WebWebView error state, or Null
    wCurrentUrl,  \* WebWebView currentUrl state
    superseded,   \* src of the iframe replaced while its load was in flight
    fsTimers,     \* pending fullscreen timers, each tagged with its instance
    windowOrigin, \* window.location.origin of the embedding page
    cbListeners,  \* registered handleCallback listeners, each tagged with its instance
    authOpens,    \* number of window.open calls made by handleGoogleAuth
    authRequests, \* number of GOOGLE_AUTH_REQUEST messages accepted from TrustedOrigin
    completions,  \* number of GOOGLE_AUTH_CALLBACK events that reached a listener
    responses,    \* number of GOOGLE_AUTH_RESPONSE messages posted into the iframe
    sentTo,       \* set of target origins messages were posted to
    \* PlatformWebView on a native platform
    nMounted,       \* whether a PlatformWebView (and its WebView) is mounted
    nInst,          \* number of PlatformWebView instances mounted so far
    nDoc,           \* origin of the document loaded in the WebView
    launchUrl,      \* what Linking.getInitialURL() resolves to
    initPending,    \* instances whose getInitialURL() promise is unresolved
    urlSub,         \* instance holding the Linking 'url' subscription, 0 if none
    canOpenPending, \* handleGoogleAuthRequest calls awaiting Linking.canOpenURL
    openPending,    \* handleGoogleAuthRequest calls awaiting Linking.openURL
    flowsOpen,      \* OAuth pages opened whose redirect has not come back
    fetchPending,   \* pending userinfo fetches: <<instance, solicited>>
    nRequests,      \* GOOGLE_AUTH_REQUEST messages handled by handleMessage
    nFailures,      \* failures of an exchange that a request started
    nFailResponses, \* GOOGLE_AUTH_RESPONSE messages posted with success: false
    nOkResponses,   \* GOOGLE_AUTH_RESPONSE messages posted with success: true
    deliveredTo,    \* origins of the documents a response was delivered into
    nLastOp,        \* name of the native handler that ran last
    \* useGoogleAuth
    request,        \* TRUE once useAuthRequest has loaded the request
    response,       \* type of the response state of useAuthRequest, or Null
    effectPending,  \* the effect keyed on [response] has still to run
    isLoading,      \* isLoading state
    authError,      \* error state
    signInPc,       \* position of the signInWithGoogle call
    signInResult,   \* value the signInWithGoogle promise settled with
    effectPc,       \* position of the handleAuthSuccess the effect started
    codeRedeemed,   \* the authorization code of the last prompt was exchanged
    nSignIns,       \* calls of signInWithGoogle
    nAuthorized,    \* prompts that returned success with a code
    nExchanges      \* calls of exchangeCodeAsync

fmtVars == <<fmtIn, fmtOut, fmtPc>>

screenVars ==
    <<screen, initialUrl, url, currentUrl, loading, error, showWebView,
      escListeners, fullscreen, lastOp>>

webVars ==
    <<wMounted, inst, wLoading, wError, wCurrentUrl, superseded, fsTimers, windowOrigin,
      cbListeners, authOpens, authRequests, completions, responses, sentTo>>

nativeVars ==
    <<nMounted, nInst, nDoc, launchUrl, initPending, urlSub, canOpenPending,
      openPending, flowsOpen, fetchPending, nRequests, nFailures, nFailResponses,
      nOkResponses, deliveredTo, nLastOp>>

hookVars ==
    <<request, response, effectPending, isLoading, authError, signInPc, signInResult,
      effectPc, codeRedeemed, nSignIns, nAuthorized, nExchanges>>

vars == <<fmtVars, screenVars, webVars, nativeVars, hookVars>>

-----------------------------------------------------------------------------
(* String literals of the source, as code units.                           *)

\* 'https://www.google.com/search?q='
SearchPrefix == <<104, 116, 116, 112, 115, 58, 47, 47, 119, 119, 119, 46, 103, 111, 111, 103, 108, 101, 46, 99, 111, 109, 47, 115, 101, 97, 114, 99, 104, 63, 113, 61>>
\* 'https://'
HttpsPrefix == <<104, 116, 116, 112, 115, 58, 47, 47>>
\* 'http://'
HttpPrefix == <<104, 116, 116, 112, 58, 47, 47>>
\* '://'
SchemeSep == <<58, 47, 47>>
\* '.'
Dot == <<46>>
\* ' '
Space == <<32>>
\* '%'
Percent == <<37>>

\* What a call that throws URIError yields: no string holds the unit -1.
URIError == << -1 >>

-----------------------------------------------------------------------------
(* String primitives of the JavaScript engine.                             *)

\* WhiteSpace and LineTerminator code units, as String.prototype.trim strips.
IsWhiteSpace(c) ==
    \/ c \in {9, 10, 11, 12, 13, 32, 160, 5760, 8232, 8233, 8239, 8287, 12288, 65279}
    \/ c \in 8192..8202

RECURSIVE TrimStart(_)
TrimStart(s) ==
    IF s # <<>> /\ IsWhiteSpace(Head(s)) THEN TrimStart(Tail(s)) ELSE s

RECURSIVE TrimEnd(_)
TrimEnd(s) ==
    IF s # <<>> /\ IsWhiteSpace(s[Len(s)])
    THEN TrimEnd(SubSeq(s, 1, Len(s) - 1))
    ELSE s

\* String.prototype.trim
Trim(s) == TrimEnd(TrimStart(s))

\* String.prototype.startsWith
StartsWith(s, p) == Len(s) >= Len(p) /\ SubSeq(s, 1, Len(p)) = p

\* String.prototype.includes
Includes(s, sub) ==
    \E i \in 0..(Len(s) - Len(sub)) : SubSeq(s, i + 1, i + Len(sub)) = sub

\* s.split(' ').length: one more than the number of separators in s
SplitLength(s) == 1 + Cardinality({i \in 1..Len(s) : <<s[i]>> = Space})

\* s.replace(/^https?:\/\//, '')
StripProtocol(s) ==
    IF StartsWith(s, HttpsPrefix) THEN SubSeq(s, Len(HttpsPrefix) + 1, Len(s))
    ELSE IF StartsWith(s, HttpPrefix) THEN SubSeq(s, Len(HttpPrefix) + 1, Len(s))
    ELSE s

-----------------------------------------------------------------------------
(* encodeURIComponent / decodeURIComponent (ECMAScript Encode / Decode).    *)

IsHighSurrogate(c) == c \in 55296..56319
IsLowSurrogate(c) == c \in 56320..57343

\* uriUnescaped: alphanumerics and - _ . ! ~ * ' ( )
IsUnreserved(c) ==
    \/ c \in 48..57
    \/ c \in 65..90
    \/ c \in 97..122
    \/ c \in {45, 95, 46, 33, 126, 42, 39, 40, 41}

HexDigit(n) == IF n < 10 THEN 48 + n ELSE 55 + n

HexVal(c) ==
    IF c \in 48..57 THEN c - 48
    ELSE IF c \in 65..70 THEN c - 55
    ELSE IF c \in 97..102 THEN c - 87
    ELSE -1

\* '%XX' for one octet
Escape(b) == <<37, HexDigit(b \div 16), HexDigit(b % 16)>>

\* UTF-8 octets of code point v
Utf8(v) ==
    IF v < 128 THEN <<v>>
    ELSE IF v < 2048 THEN <<192 + (v \div 64), 128 + (v % 64)>>
    ELSE IF v < 65536
         THEN <<224 + (v \div 4096), 128 + ((v \div 64) % 64), 128 + (v % 64)>>
    ELSE <<240 + (v \div 262144), 128 + ((v \div 4096) % 64),
           128 + ((v \div 64) % 64), 128 + (v % 64)>>

RECURSIVE EscapeAll(_)
EscapeAll(bs) == IF bs = <<>> THEN <<>> ELSE Escape(Head(bs)) \o EscapeAll(Tail(bs))

RECURSIVE EncodeFrom(_, _)
EncodeFrom(s, k) ==
    IF k > Len(s) THEN <<>>
    ELSE LET c == s[k] IN
         IF IsUnreserved(c)
         THEN LET rest == EncodeFrom(s, k + 1)
              IN IF rest = URIError THEN URIError ELSE <<c>> \o rest
         ELSE IF IsLowSurrogate(c) THEN URIError
         ELSE IF IsHighSurrogate(c)
              THEN IF k + 1 > Len(s) \/ ~IsLowSurrogate(s[k + 1]) THEN URIError
                   ELSE LET v == (c - 55296) * 1024 + (s[k + 1] - 56320) + 65536
                            rest == EncodeFrom(s, k + 2)
                        IN IF rest = URIError THEN URIError
                           ELSE EscapeAll(Utf8(v)) \o rest
         ELSE LET rest == EncodeFrom(s, k + 1)
              IN IF rest = URIError THEN URIError
                 ELSE EscapeAll(Utf8(c)) \o rest

encodeURIComponent(s) == EncodeFrom(s, 1)

\* The octet written '%XX' at position k of s, or -1 when none is written there.
OctetAt(s, k) ==
    IF k + 2 > Len(s) \/ s[k] # 37 THEN -1
    ELSE IF HexVal(s[k + 1]) < 0 \/ HexVal(s[k + 2]) < 0 THEN -1
    ELSE 16 * HexVal(s[k + 1]) + HexVal(s[k + 2])

\* Number of octets of the UTF-8 sequence led by octet b (0: not a lead octet)
Utf8Length(b) ==
    IF b \in 192..223 THEN 2
    ELSE IF b \in 224..239 THEN 3
    ELSE IF b \in 240..247 THEN 4
    ELSE 0

IsContinuation(b) == b \in 128..191

\* Code point of the n-octet sequence starting at position k, or -1 if malformed.
CodePointAt(s, k, n) ==
    LET b0 == OctetAt(s, k)
        b1 == OctetAt(s, k + 3)
        b2 == OctetAt(s, k + 6)
        b3 == OctetAt(s, k + 9)
    IN IF n = 2
       THEN IF ~IsContinuation(b1) THEN -1
            ELSE LET v == (b0 - 192) * 64 + (b1 - 128)
                 IN IF v < 128 THEN -1 ELSE v
       ELSE IF n = 3
       THEN IF ~IsContinuation(b1) \/ ~IsContinuation(b2) THEN -1
            ELSE LET v == (b0 - 224) * 4096 + (b1 - 128) * 64 + (b2 - 128)
                 IN IF v < 2048 \/ v \in 55296..57343 THEN -1 ELSE v
       ELSE IF ~IsContinuation(b1) \/ ~IsContinuation(b2) \/ ~IsContinuation(b3)
            THEN -1
            ELSE LET v == (b0 - 240) * 262144 + (b1 - 128) * 4096
                          + (b2 - 128) * 64 + (b3 - 128)
                 IN IF v < 65536 \/ v > 1114111 THEN -1 ELSE v

\* UTF-16 code units of code point v
Utf16(v) ==
    IF v < 65536 THEN <<v>>
    ELSE <<55296 + ((v - 65536) \div 1024), 56320 + ((v - 65536) % 1024)>>

RECURSIVE DecodeFrom(_, _)
DecodeFrom(s, k) ==
    IF k > Len(s) THEN <<>>
    ELSE IF s[k] # 37
         THEN LET rest == DecodeFrom(s, k + 1)
              IN IF rest = URIError THEN URIError ELSE <<s[k]>> \o rest
    ELSE LET b == OctetAt(s, k) IN
         IF b < 0 THEN URIError
         ELSE IF b < 128
              THEN LET rest == DecodeFrom(s, k + 3)
                   IN IF rest = URIError THEN URIError ELSE <<b>> \o rest
         ELSE LET n == Utf8Length(b) IN
              IF n = 0 THEN URIError
              ELSE LET v == CodePointAt(s, k, n) IN
                   IF v < 0 THEN URIError
                   ELSE LET rest == DecodeFrom(s, k + 3 * n)
                        IN IF rest = URIError THEN URIError ELSE Utf16(v) \o rest

decodeURIComponent(s) == DecodeFrom(s, 1)

\* A string with no lone surrogate (what encodeURIComponent accepts).
RECURSIVE WellFormedFrom(_, _)
WellFormedFrom(s, k) ==
    IF k > Len(s) THEN TRUE
    ELSE IF IsLowSurrogate(s[k]) THEN FALSE
    ELSE IF IsHighSurrogate(s[k])
         THEN k + 1 <= Len(s) /\ IsLowSurrogate(s[k + 1]) /\ WellFormedFrom(s, k + 2)
    ELSE WellFormedFrom(s, k + 1)

IsWellFormed(s) == WellFormedFrom(s, 1)

-----------------------------------------------------------------------------
(* formatUrl: the URL normaliser of BrowserScreen.                          *)

\* A search-query test that looks at the '.' only
LooksLikeSearchWithoutSpaceClause(cleanUrl) == ~Includes(cleanUrl, Dot)

\* the search-query test of formatUrl
LooksLikeSearch(cleanUrl) ==
    \/ ~Includes(cleanUrl, Dot)
    \/ (Includes(cleanUrl, Space) /\ SplitLength(cleanUrl) > 1)

\* the address branch of formatUrl, applied to the trimmed input
AddressOf(cleanUrl) ==
    LET stripped == StripProtocol(cleanUrl)
    IN IF ~Includes(stripped, SchemeSep) THEN HttpsPrefix \o stripped ELSE stripped

\* SearchOf with the query left unencoded
SearchOfUnencoded(cleanUrl) == SearchPrefix \o cleanUrl

\* the search branch of formatUrl, applied to the trimmed input
SearchOf(cleanUrl) ==
    LET q == encodeURIComponent(cleanUrl)
    IN IF q = URIError THEN URIError ELSE SearchPrefix \o q

\* formatUrl without its first line, the empty-after-trim return
formatUrlNoEmptyReturn(inputUrl) ==
    LET cleanUrl == Trim(inputUrl)
    IN IF LooksLikeSearch(cleanUrl) THEN SearchOf(cleanUrl)
       ELSE AddressOf(cleanUrl)

formatUrl(inputUrl) ==
    IF Trim(inputUrl) = <<>> THEN <<>>
    ELSE LET cleanUrl == Trim(inputUrl)
         IN IF LooksLikeSearch(cleanUrl) THEN SearchOf(cleanUrl)
            ELSE AddressOf(cleanUrl)

-----------------------------------------------------------------------------
(* Pure-function harness: formatUrl applied to every bounded input.         *)

MaxPieces == 3

\* Fragments the inputs are assembled from: 'a', '.', ' ', TAB, '%', ':', '/',
\* '://', 'http://', 'https://', U+00E9, U+1F600 (a surrogate pair), and a
\* lone high surrogate.
Pieces ==
    { <<97>>, Dot, Space, <<9>>, Percent, <<58>>, <<47>>, SchemeSep,
      HttpPrefix, HttpsPrefix, <<233>>, <<55357, 56832>>, <<55357>> }

RECURSIVE Flatten(_)
Flatten(ps) == IF ps = <<>> THEN <<>> ELSE Head(ps) \o Flatten(Tail(ps))

\* 'openai.com', 'weather today', 'a.b c'
OpenAiCom == <<111, 112, 101, 110, 97, 105, 46, 99, 111, 109>>
WeatherToday == <<119, 101, 97, 116, 104, 101, 114, 32, 116, 111, 100, 97, 121>>
DottedWithSpace == <<97, 46, 98, 32, 99>>

FormatInputs ==
    { Flatten(ps) : ps \in UNION { [1..n -> Pieces] : n \in 0..MaxPieces } }
        \cup {OpenAiCom, WeatherToday, DottedWithSpace}

FmtInit ==
    /\ fmtIn \in FormatInputs
    /\ fmtOut = <<>>
    /\ fmtPc = "call"

FmtIdle ==
    /\ fmtIn = <<>>
    /\ fmtOut = <<>>
    /\ fmtPc = "call"

\* one call formatUrl(fmtIn)
FmtCall ==
    /\ fmtPc = "call"
    /\ fmtOut' = formatUrl(fmtIn)
    /\ fmtPc' = "done"
    /\ UNCHANGED <<fmtIn, screenVars, webVars, nativeVars, hookVars>>

-----------------------------------------------------------------------------
(* BrowserScreen and WebWebView: values and bounds.                         *)

Null == "null"

\* the origin both message checks and both postMessage calls name
TrustedOrigin == "https://enter.vibz.world"
\* an origin of the embedding page other than TrustedOrigin
HostOrigin == "https://host.example"
\* any third origin
OtherOrigin == "https://other.example"
Origins == {TrustedOrigin, HostOrigin, OtherOrigin}

MessageTypes == {"GOOGLE_AUTH_REQUEST", "GOOGLE_AUTH_CALLBACK", "OTHER"}

ScreenErrorMessage == "This website cannot be displayed due to security restrictions."
BridgeErrorMessage ==
    "This website cannot be displayed in the browser due to security restrictions. Try opening it in a new tab."

\* Texts typed into the input field: '', ' ', 'a', 'a.b', and a lone surrogate.
TypedTexts == { <<>>, Space, <<97>>, <<97, 46, 98>>, <<55357>> }

\* Values of the route parameter: undefined, '', '%20', 'a.b', '%'.
RouteParams == { {}, {<<>>}, {<<37, 50, 48>>}, {<<97, 46, 98>>}, {Percent} }

MaxMounts == 2
MaxAuth == 2
MaxTimers == 1

ScreenInit ==
    /\ screen = "mounted"
    /\ initialUrl = {}
    /\ url = <<>>
    /\ currentUrl = <<>>
    /\ loading = FALSE
    /\ error = Null
    /\ showWebView = FALSE
    /\ escListeners = 0
    /\ fullscreen = FALSE
    /\ lastOp = "init"

WebInit ==
    /\ wMounted = FALSE
    /\ inst = 0
    /\ wLoading = TRUE
    /\ wError = Null
    /\ wCurrentUrl = <<>>
    /\ superseded = {}
    /\ fsTimers = <<>>
    /\ windowOrigin \in {HostOrigin, TrustedOrigin}
    /\ cbListeners = <<>>
    /\ authOpens = 0
    /\ authRequests = 0
    /\ completions = 0
    /\ responses = 0
    /\ sentTo = {}

WebIdle == WebInit /\ windowOrigin = HostOrigin

\* The iframe (and its container div) is rendered unless the error view is.
IframePresent == wMounted /\ wError = Null

\* A WebWebView whose loading state starts as false
MountWebWebViewNotLoading(uri) ==
    /\ wMounted' = TRUE
    /\ inst' = inst + 1
    /\ wLoading' = FALSE
    /\ wError' = Null
    /\ wCurrentUrl' = uri
    /\ superseded' = {}

\* First render of a WebWebView with source.uri = uri: the useState initial
\* values, then the source.uri effect.
MountWebWebView(uri) ==
    /\ wMounted' = TRUE
    /\ inst' = inst + 1
    /\ wLoading' = TRUE
    /\ wError' = Null
    /\ wCurrentUrl' = uri
    /\ superseded' = {}

\* The WebWebView instance is discarded with its state; the handleMessage
\* listener is removed by the effect's cleanup.
UnmountWebWebView ==
    /\ wMounted' = FALSE
    /\ wLoading' = TRUE
    /\ wError' = Null
    /\ wCurrentUrl' = <<>>
    /\ superseded' = {}
    /\ UNCHANGED inst

\* Re-render of the mounted WebWebView with source.uri = uri: the effect
\* keyed on source.uri runs only when it changed.
SourceUriEffect(uri) ==
    /\ IF uri # currentUrl
       THEN /\ wCurrentUrl' = uri
            /\ wLoading' = TRUE
            /\ wError' = Null
            \* the iframe gets the new src; a load of the old one that was
            \* in flight may still deliver its event
            /\ superseded' = IF IframePresent /\ wLoading THEN {wCurrentUrl} ELSE superseded
       ELSE UNCHANGED <<wCurrentUrl, wLoading, wError, superseded>>
    /\ UNCHANGED <<wMounted, inst>>

\* A surface whose keydown effect runs at every render and adds a listener
ShowSurfaceEveryRender(uri) ==
    /\ IF wMounted THEN SourceUriEffect(uri) ELSE MountWebWebView(uri)
    /\ escListeners' = escListeners + 1

\* Render of PlatformWebView after the screen set currentUrl to uri with
\* showWebView true.
ShowSurface(uri) ==
    /\ IF wMounted THEN SourceUriEffect(uri) ELSE MountWebWebView(uri)
    /\ escListeners' = IF showWebView THEN escListeners ELSE escListeners + 1

authVars == <<windowOrigin, cbListeners, authOpens, authRequests, completions, responses, sentTo>>

-----------------------------------------------------------------------------
(* BrowserScreen handlers.                                                  *)

\* onChangeText={setUrl}: the input is rendered on the home view only
SetUrl(text) ==
    /\ screen = "mounted"
    /\ ~showWebView
    /\ url' = text
    /\ lastOp' = "setUrl"
    /\ UNCHANGED <<screen, initialUrl, currentUrl, loading, error, showWebView,
                   escListeners, fullscreen>>
    /\ UNCHANGED <<fmtVars, hookVars, webVars, nativeVars>>

handleUrlSubmit ==
    /\ screen = "mounted"
    /\ ~showWebView
    /\ lastOp' = "handleUrlSubmit"
    /\ LET formattedUrl == formatUrl(url) IN
       IF formattedUrl = URIError \/ formattedUrl = <<>>
       THEN UNCHANGED <<currentUrl, error, showWebView, escListeners,
                        wMounted, inst, wLoading, wError, wCurrentUrl, superseded>>
       ELSE /\ inst < MaxMounts
            /\ currentUrl' = formattedUrl
            /\ error' = Null
            /\ showWebView' = TRUE
            /\ ShowSurface(formattedUrl)
    /\ UNCHANGED <<screen, initialUrl, url, loading, fullscreen>>
    /\ UNCHANGED <<nativeVars, fmtVars, hookVars, fsTimers, authVars>>

\* The effect keyed on the route parameter, run when the parameter is (or
\* becomes) param.
DeepLinkEffect(param) ==
    /\ screen = "mounted"
    /\ param # initialUrl
    /\ initialUrl' = param
    /\ lastOp' = "deepLinkEffect"
    /\ IF param = {} \/ param = {<<>>}
       THEN UNCHANGED <<screen, url, currentUrl, showWebView, escListeners, fullscreen,
                        wMounted, inst, wLoading, wError, wCurrentUrl, superseded>>
       ELSE LET decodedUrl == decodeURIComponent(CHOOSE u \in param : TRUE)
                formattedUrl == formatUrl(decodedUrl)
            IN IF decodedUrl = URIError \/ formattedUrl = URIError
               THEN \* the effect throws: the screen is torn down
                    /\ screen' = "crashed"
                    /\ url' = <<>>
                    /\ currentUrl' = <<>>
                    /\ showWebView' = FALSE
                    /\ escListeners' = 0
                    /\ fullscreen' = FALSE
                    /\ UnmountWebWebView
               ELSE /\ (wMounted \/ inst < MaxMounts)
                    /\ url' = decodedUrl
                    /\ currentUrl' = formattedUrl
                    /\ showWebView' = TRUE
                    /\ ShowSurface(formattedUrl)
                    /\ UNCHANGED <<screen, fullscreen>>
    /\ UNCHANGED <<loading, error>>
    /\ UNCHANGED <<nativeVars, fmtVars, hookVars, fsTimers, authVars>>

\* Escape pressed while a keydown listener is attached: goHome
goHome ==
    /\ screen = "mounted"
    /\ escListeners > 0
    /\ showWebView' = FALSE
    /\ currentUrl' = <<>>
    /\ url' = <<>>
    /\ fullscreen' = FALSE
    /\ escListeners' = 0
    /\ lastOp' = "goHome"
    /\ UnmountWebWebView
    /\ UNCHANGED <<screen, initialUrl, loading, error>>
    /\ UNCHANGED <<nativeVars, fmtVars, hookVars, fsTimers, authVars>>

-----------------------------------------------------------------------------
(* WebWebView handlers.                                                     *)

\* iframe onLoad={handleLoad}
handleLoad(late) ==
    /\ IframePresent
    /\ late => superseded # {}
    /\ Len(fsTimers) < MaxTimers
    /\ superseded' = {}
    /\ wLoading' = FALSE
    /\ wError' = Null
    /\ loading' = FALSE                      \* onLoadEnd
    /\ fsTimers' = Append(fsTimers, inst)    \* setTimeout(enterFullscreen, 800)
    /\ url' = IF wCurrentUrl # currentUrl THEN wCurrentUrl ELSE url
    /\ lastOp' = IF late THEN "handleLoad:late" ELSE "handleLoad"
    /\ UNCHANGED <<screen, initialUrl, currentUrl, error, showWebView,
                   escListeners, fullscreen>>
    /\ UNCHANGED <<nativeVars, fmtVars, hookVars, wMounted, inst, wCurrentUrl, authVars>>

\* An enterFullscreen that does not look at containerRef.current
enterFullscreenUnguarded(i, granted) ==
    /\ i \in 1..Len(fsTimers)
    /\ fsTimers' = SubSeq(fsTimers, 1, i - 1) \o SubSeq(fsTimers, i + 1, Len(fsTimers))
    /\ fullscreen' = IF granted THEN TRUE ELSE fullscreen
    /\ lastOp' = "enterFullscreen"
    /\ UNCHANGED <<screen, initialUrl, url, currentUrl, loading, error, showWebView,
                   escListeners>>
    /\ UNCHANGED <<nativeVars, fmtVars, hookVars, wMounted, inst, wLoading, wError, wCurrentUrl,
                   superseded, authVars>>

\* The timer of handleLoad fires: enterFullscreen, on the container of the
\* instance that set the timer; the request may be granted or refused. When
\* containerRef.current is null no entry point is called.
enterFullscreen(i, granted) ==
    /\ i \in 1..Len(fsTimers)
    /\ fsTimers' = SubSeq(fsTimers, 1, i - 1) \o SubSeq(fsTimers, i + 1, Len(fsTimers))
    /\ fullscreen' =
          IF IframePresent /\ fsTimers[i] = inst /\ granted THEN TRUE ELSE fullscreen
    /\ lastOp' = IF IframePresent /\ fsTimers[i] = inst
                 THEN "enterFullscreen" ELSE "enterFullscreen:none"
    /\ UNCHANGED <<screen, initialUrl, url, currentUrl, loading, error, showWebView,
                   escListeners>>
    /\ UNCHANGED <<nativeVars, fmtVars, hookVars, wMounted, inst, wLoading, wError,
                   wCurrentUrl, superseded, authVars>>

\* iframe onError={handleError}
handleError(late) ==
    /\ IframePresent
    /\ late => superseded # {}
    /\ superseded' = {}                      \* the iframe leaves the document
    /\ wLoading' = FALSE
    /\ wError' = BridgeErrorMessage
    /\ loading' = FALSE                      \* onError: the screen's handleError
    /\ error' = ScreenErrorMessage
    /\ fullscreen' = FALSE                   \* the container leaves the document
    /\ lastOp' = IF late THEN "handleError:late" ELSE "handleError"
    /\ UNCHANGED <<screen, initialUrl, url, currentUrl, showWebView, escListeners>>
    /\ UNCHANGED <<nativeVars, fmtVars, hookVars, wMounted, inst, wCurrentUrl, fsTimers, authVars>>

\* A 'Try Again' that clears the error without setLoading(true)
TryAgainWithoutLoading ==
    /\ wMounted
    /\ wError # Null
    /\ wError' = Null
    /\ lastOp' = "tryAgain"
    /\ UNCHANGED <<screen, initialUrl, url, currentUrl, loading, error, showWebView,
                   escListeners, fullscreen>>
    /\ UNCHANGED <<nativeVars, fmtVars, hookVars, wMounted, inst, wLoading, wCurrentUrl,
                   superseded, fsTimers, authVars>>

\* 'Try Again' of the error view
TryAgain ==
    /\ wMounted
    /\ wError # Null
    /\ wError' = Null
    /\ wLoading' = TRUE
    /\ lastOp' = "tryAgain"
    /\ UNCHANGED <<screen, initialUrl, url, currentUrl, loading, error, showWebView,
                   escListeners, fullscreen>>
    /\ UNCHANGED <<nativeVars, fmtVars, hookVars, wMounted, inst, wCurrentUrl,
                   superseded, fsTimers, authVars>>

\* reload of the imperative handle, offered to the holder of the ref: with
\* an iframe, setLoading(true), setError(null) and a new src for the same
\* currentUrl.
reload ==
    /\ IframePresent
    /\ wLoading' = TRUE
    /\ wError' = Null
    /\ lastOp' = "reload"
    /\ UNCHANGED <<screen, initialUrl, url, currentUrl, loading, error, showWebView,
                   escListeners, fullscreen>>
    /\ UNCHANGED <<nativeVars, fmtVars, hookVars, wMounted, inst, wCurrentUrl,
                   superseded, fsTimers, authVars>>

\* handleGoogleAuth: window.open, then one more handleCallback listener
handleGoogleAuth ==
    /\ authOpens' = authOpens + 1
    /\ cbListeners' = Append(cbListeners, inst)

\* Number of registered handleCallback listeners whose iframe still exists
LiveListeners ==
    Cardinality({k \in 1..Len(cbListeners) : IframePresent /\ cbListeners[k] = inst})

\* A message event on window, seen by every listener registered on it: the
\* handleMessage listener of the mounted WebWebView and every handleCallback
\* listener.
WindowMessage(origin, type) ==
    /\ wMounted \/ cbListeners # <<>>
    /\ lastOp' = "windowMessage"
    /\ IF wMounted /\ origin = TrustedOrigin /\ type = "GOOGLE_AUTH_REQUEST"
       THEN /\ authOpens < MaxAuth
            /\ authRequests' = authRequests + 1
            /\ handleGoogleAuth
            /\ UNCHANGED <<completions, responses, sentTo>>
       ELSE IF cbListeners # <<>> /\ origin = windowOrigin /\ type = "GOOGLE_AUTH_CALLBACK"
       THEN /\ completions' = completions + 1
            /\ responses' = responses + LiveListeners
            /\ sentTo' = IF LiveListeners > 0 THEN sentTo \cup {TrustedOrigin} ELSE sentTo
            /\ cbListeners' = <<>>
            /\ UNCHANGED <<authOpens, authRequests>>
       ELSE UNCHANGED <<cbListeners, authOpens, authRequests, completions, responses, sentTo>>
    /\ UNCHANGED <<screen, initialUrl, url, currentUrl, loading, error, showWebView,
                   escListeners, fullscreen>>
    /\ UNCHANGED <<nativeVars, fmtVars, hookVars, wMounted, inst, wLoading, wError,
                   wCurrentUrl, superseded, fsTimers,
                   windowOrigin>>

-----------------------------------------------------------------------------
(* PlatformWebView on a native platform: the Linking effect, the request    *)
(* handler and the message handler.                                         *)

\* URLs handed to handleAuthCallback, by what the handler tells apart:
\*   "other"      does not start with REDIRECT_URI
\*   "noFragment" starts with REDIRECT_URI, has no '#'
\*   "noToken"    starts with REDIRECT_URI, has a fragment without access_token
\*   "token"      starts with REDIRECT_URI, fragment carries access_token
UrlKinds == {"other", "noFragment", "noToken", "token"}

\* Outcomes of the userinfo fetch: a profile, an error body with an HTTP error
\* status (fetch resolves), or a rejected fetch.
FetchOutcomes == {"profile", "httpError", "networkError"}

MaxNativeMounts == 2
MaxNativeAuth == 2
MaxResponses == 2

NativeInit ==
    /\ nMounted = FALSE
    /\ nInst = 0
    /\ nDoc = TrustedOrigin
    /\ launchUrl \in {"none"} \cup UrlKinds
    /\ initPending = {}
    /\ urlSub = 0
    /\ canOpenPending = 0
    /\ openPending = 0
    /\ flowsOpen = 0
    /\ fetchPending = <<>>
    /\ nRequests = 0
    /\ nFailures = 0
    /\ nFailResponses = 0
    /\ nOkResponses = 0
    /\ deliveredTo = {}
    /\ nLastOp = "init"

NativeIdle == NativeInit /\ launchUrl = "none"

\* webViewRef.current of instance i is set while that instance is mounted
RefSet(i) == nMounted /\ nInst = i

\* Messages posted so far, and fetches that may still post one
ResponseBudget == nFailResponses + nOkResponses + Len(fetchPending)

\* if (webViewRef.current) webViewRef.current.postMessage(JSON.stringify(message)):
\* the call names no target origin, the message goes to whatever document the
\* WebView holds.
PostResponse(i, success) ==
    IF RefSet(i)
    THEN /\ nOkResponses' = IF success THEN nOkResponses + 1 ELSE nOkResponses
         /\ nFailResponses' = IF success THEN nFailResponses ELSE nFailResponses + 1
         /\ deliveredTo' = deliveredTo \cup {nDoc}
    ELSE UNCHANGED <<nOkResponses, nFailResponses, deliveredTo>>

\* handleAuthCallback(url) of instance i; solicited: the url is the redirect
\* of an OAuth page this process opened.
handleAuthCallback(kind, i, solicited) ==
    IF kind = "token"
    THEN /\ fetchPending' = Append(fetchPending, <<i, solicited>>)
         /\ UNCHANGED <<nFailures, nOkResponses, nFailResponses, deliveredTo>>
    ELSE IF kind = "noToken"
    THEN /\ PostResponse(i, FALSE)
         /\ nFailures' = IF solicited THEN nFailures + 1 ELSE nFailures
         /\ UNCHANGED fetchPending
    ELSE IF kind = "noFragment"
    THEN /\ nFailures' = IF solicited THEN nFailures + 1 ELSE nFailures
         /\ UNCHANGED <<fetchPending, nOkResponses, nFailResponses, deliveredTo>>
    ELSE UNCHANGED <<fetchPending, nFailures, nOkResponses, nFailResponses, deliveredTo>>

\* PlatformWebView mounts with a document of origin doc: the Linking effect
\* asks for the initial URL and subscribes to 'url' events.
NativeMount(doc) ==
    /\ ~nMounted
    /\ nInst < MaxNativeMounts
    /\ nMounted' = TRUE
    /\ nInst' = nInst + 1
    /\ nDoc' = doc
    /\ initPending' = initPending \cup {nInst + 1}
    /\ urlSub' = nInst + 1
    /\ nLastOp' = "mount"
    /\ UNCHANGED <<launchUrl, canOpenPending, openPending, flowsOpen, fetchPending,
                   nRequests, nFailures, nFailResponses, nOkResponses, deliveredTo>>
    /\ UNCHANGED <<fmtVars, hookVars, screenVars, webVars>>

\* PlatformWebView unmounts: the effect's cleanup removes the subscription.
NativeUnmount ==
    /\ nMounted
    /\ nMounted' = FALSE
    /\ urlSub' = 0
    /\ nLastOp' = "unmount"
    /\ UNCHANGED <<nInst, nDoc, launchUrl, initPending, canOpenPending, openPending,
                   flowsOpen, fetchPending, nRequests, nFailures, nFailResponses,
                   nOkResponses, deliveredTo>>
    /\ UNCHANGED <<fmtVars, hookVars, screenVars, webVars>>

\* The WebView navigates to a document of origin doc.
NativeNavigate(doc) ==
    /\ nMounted
    /\ doc # nDoc
    /\ nDoc' = doc
    /\ nLastOp' = "navigate"
    /\ UNCHANGED <<nMounted, nInst, launchUrl, initPending, urlSub, canOpenPending,
                   openPending, flowsOpen, fetchPending, nRequests, nFailures,
                   nFailResponses, nOkResponses, deliveredTo>>
    /\ UNCHANGED <<fmtVars, hookVars, screenVars, webVars>>

\* Linking.getInitialURL().then(url => { if (url) handleAuthCallback(url) })
InitialUrlResolves(i) ==
    /\ i \in initPending
    /\ initPending' = initPending \ {i}
    /\ nLastOp' = "getInitialURL"
    /\ IF launchUrl = "none"
       THEN UNCHANGED <<fetchPending, nFailures, nOkResponses, nFailResponses, deliveredTo>>
       ELSE /\ ResponseBudget < MaxResponses
            /\ handleAuthCallback(launchUrl, i, FALSE)
    /\ UNCHANGED <<nMounted, nInst, nDoc, launchUrl, urlSub, canOpenPending, openPending,
                   flowsOpen, nRequests>>
    /\ UNCHANGED <<fmtVars, hookVars, screenVars, webVars>>

\* A 'url' event of Linking reaches the subscription.
LinkingUrl(kind) ==
    /\ urlSub # 0
    /\ ResponseBudget < MaxResponses
    /\ nLastOp' = "urlEvent"
    /\ LET solicited == kind # "other" /\ flowsOpen > 0 IN
       /\ flowsOpen' = IF solicited THEN flowsOpen - 1 ELSE flowsOpen
       /\ handleAuthCallback(kind, urlSub, solicited)
    /\ UNCHANGED <<nMounted, nInst, nDoc, launchUrl, initPending, urlSub, canOpenPending,
                   openPending, nRequests>>
    /\ UNCHANGED <<fmtVars, hookVars, screenVars, webVars>>

\* The userinfo fetch started by handleAuthCallback settles.
FetchSettles(k, outcome) ==
    /\ k \in 1..Len(fetchPending)
    /\ fetchPending' = SubSeq(fetchPending, 1, k - 1)
                         \o SubSeq(fetchPending, k + 1, Len(fetchPending))
    /\ nLastOp' = "fetch"
    /\ PostResponse(fetchPending[k][1], outcome # "networkError")
    /\ nFailures' = IF fetchPending[k][2] /\ outcome # "profile"
                    THEN nFailures + 1 ELSE nFailures
    /\ UNCHANGED <<nMounted, nInst, nDoc, launchUrl, initPending, urlSub, canOpenPending,
                   openPending, flowsOpen, nRequests>>
    /\ UNCHANGED <<fmtVars, hookVars, screenVars, webVars>>

\* onMessage={handleMessage}: a message posted by the loaded document; a
\* GOOGLE_AUTH_REQUEST calls handleGoogleAuthRequest, which runs up to its
\* first await (Linking.canOpenURL).
handleMessage(type) ==
    /\ nMounted
    /\ nLastOp' = "handleMessage"
    /\ IF type = "GOOGLE_AUTH_REQUEST"
       THEN /\ nRequests < MaxNativeAuth
            /\ nRequests' = nRequests + 1
            /\ canOpenPending' = canOpenPending + 1
       ELSE UNCHANGED <<nRequests, canOpenPending>>
    /\ UNCHANGED <<nMounted, nInst, nDoc, launchUrl, initPending, urlSub, openPending,
                   flowsOpen, fetchPending, nFailures, nFailResponses, nOkResponses,
                   deliveredTo>>
    /\ UNCHANGED <<fmtVars, hookVars, screenVars, webVars>>

\* handleGoogleAuthRequest resumes after Linking.canOpenURL(authUrl)
CanOpenSettles(result) ==
    /\ canOpenPending > 0
    /\ canOpenPending' = canOpenPending - 1
    /\ nLastOp' = "canOpenURL"
    /\ IF result = "true"
       THEN /\ openPending' = openPending + 1
            /\ UNCHANGED nFailures
       ELSE \* "false": console.error; "throws": the catch block, console.error
            /\ nFailures' = nFailures + 1
            /\ UNCHANGED openPending
    /\ UNCHANGED <<nMounted, nInst, nDoc, launchUrl, initPending, urlSub, flowsOpen,
                   fetchPending, nRequests, nFailResponses, nOkResponses, deliveredTo>>
    /\ UNCHANGED <<fmtVars, hookVars, screenVars, webVars>>

\* handleGoogleAuthRequest resumes after Linking.openURL(authUrl)
OpenSettles(opened) ==
    /\ openPending > 0
    /\ openPending' = openPending - 1
    /\ nLastOp' = "openURL"
    /\ IF opened
       THEN /\ flowsOpen' = flowsOpen + 1
            /\ UNCHANGED nFailures
       ELSE \* the catch block: console.error
            /\ nFailures' = nFailures + 1
            /\ UNCHANGED flowsOpen
    /\ UNCHANGED <<nMounted, nInst, nDoc, launchUrl, initPending, urlSub, canOpenPending,
                   fetchPending, nRequests, nFailResponses, nOkResponses, deliveredTo>>
    /\ UNCHANGED <<fmtVars, hookVars, screenVars, webVars>>

-----------------------------------------------------------------------------
(* useGoogleAuth: signInWithGoogle, handleAuthSuccess and the effect keyed   *)
(* on the response of useAuthRequest.                                       *)

MaxSignIns == 2

\* result.type of promptAsync; "success" carries params.code, "successNoCode"
\* is a success without one, "dismiss" stands for every other type
PromptTypes == {"success", "successNoCode", "cancel", "error", "dismiss"}

\* err.message of a thrown Error (possibly empty); a value thrown that is not
\* an Error yields 'Authentication failed'
ThrownMessages == {"Network request failed", "", "Authentication failed"}

\* response.error?.message || 'Authentication failed'
ResponseErrorMessages == {"access_denied", "Authentication failed"}

Pending == <<"pending">>
AccessTokenResult == <<"accessToken">>
ErrorResult(message) == <<"error", message>>

HookInit ==
    /\ request = FALSE
    /\ response = Null
    /\ effectPending = FALSE
    /\ isLoading = FALSE
    /\ authError = Null
    /\ signInPc = "idle"
    /\ signInResult = Pending
    /\ effectPc = "idle"
    /\ codeRedeemed = FALSE
    /\ nSignIns = 0
    /\ nAuthorized = 0
    /\ nExchanges = 0

\* useAuthRequest has loaded the request
RequestLoads ==
    /\ ~request
    /\ request' = TRUE
    /\ UNCHANGED <<response, effectPending, isLoading, authError, signInPc, signInResult,
                   effectPc, codeRedeemed, nSignIns, nAuthorized, nExchanges>>
    /\ UNCHANGED <<fmtVars, screenVars, webVars, nativeVars>>

\* The async function called by path ("signIn": awaited by signInWithGoogle,
\* "effect": started by the response effect) returns value.
Return(path, value) ==
    IF path = "signIn"
    THEN /\ signInPc' = "resolved"
         /\ signInResult' = value
         /\ UNCHANGED effectPc
    ELSE /\ effectPc' = "idle"
         /\ UNCHANGED <<signInPc, signInResult>>

\* The async function called by path goes on to its next await.
Await(path, pc) ==
    IF path = "signIn"
    THEN /\ signInPc' = pc
         /\ UNCHANGED <<signInResult, effectPc>>
    ELSE /\ effectPc' = pc
         /\ UNCHANGED <<signInPc, signInResult>>

\* A signInWithGoogle whose throw is not caught: the promise rejects
CatchRethrows(path, message) ==
    /\ signInPc' = "rejected"
    /\ UNCHANGED <<authError, isLoading, signInResult, effectPc>>

\* catch (err) of handleAuthSuccess and of signInWithGoogle
Catch(path, message) ==
    /\ authError' = message
    /\ isLoading' = FALSE
    /\ Return(path, ErrorResult(message))

\* handleAuthSuccess up to its first await
handleAuthSuccess(path) ==
    IF response # "success"
    THEN /\ Catch(path, "No authorization code received")
         /\ UNCHANGED nExchanges
    ELSE /\ nExchanges' = nExchanges + 1       \* exchangeCodeAsync
         /\ Await(path, "exchange")
         /\ UNCHANGED <<authError, isLoading>>

signInWithGoogle ==
    /\ signInPc \in {"idle", "resolved"}
    /\ effectPc = "idle" /\ ~effectPending
    /\ nSignIns < MaxSignIns
    /\ nSignIns' = nSignIns + 1
    /\ IF ~request
       THEN Catch("signIn", "Auth request not initialized")
       ELSE /\ isLoading' = TRUE
            /\ authError' = Null
            /\ signInPc' = "prompt"             \* await promptAsync
            /\ signInResult' = Pending
            /\ UNCHANGED effectPc
    /\ UNCHANGED <<request, response, effectPending, codeRedeemed, nAuthorized, nExchanges>>
    /\ UNCHANGED <<fmtVars, screenVars, webVars, nativeVars>>

\* promptAsync throws
PromptThrows(message) ==
    /\ signInPc = "prompt"
    /\ Catch("signIn", message)
    /\ UNCHANGED <<request, response, effectPending, codeRedeemed, nSignIns, nAuthorized,
                   nExchanges>>
    /\ UNCHANGED <<fmtVars, screenVars, webVars, nativeVars>>

\* promptAsync resolves with a result of the given type: useAuthRequest
\* stores it as response, and signInWithGoogle can go on.
PromptSettles(type) ==
    /\ signInPc = "prompt"
    /\ response' = type
    /\ effectPending' = TRUE
    /\ signInPc' = "prompted"
    /\ codeRedeemed' = FALSE
    /\ nAuthorized' = IF type = "success" THEN nAuthorized + 1 ELSE nAuthorized
    /\ UNCHANGED <<request, isLoading, authError, signInResult, effectPc, nSignIns,
                   nExchanges>>
    /\ UNCHANGED <<fmtVars, screenVars, webVars, nativeVars>>

\* signInWithGoogle after await promptAsync
SignInContinues ==
    /\ signInPc = "prompted"
    /\ IF response \in {"success", "successNoCode"}
       THEN handleAuthSuccess("signIn")
       ELSE /\ isLoading' = FALSE
            /\ Return("signIn", ErrorResult(IF response = "cancel"
                                            THEN "Authentication was cancelled"
                                            ELSE "Authentication failed"))
            /\ UNCHANGED <<authError, nExchanges>>
    /\ UNCHANGED <<request, response, effectPending, codeRedeemed, nSignIns, nAuthorized>>
    /\ UNCHANGED <<fmtVars, screenVars, webVars, nativeVars>>

\* useEffect(..., [response])
ResponseEffect(message) ==
    /\ effectPending
    /\ effectPending' = FALSE
    /\ IF response \in {"success", "successNoCode"}
       THEN handleAuthSuccess("effect")
       ELSE IF response \in {"error", "cancel"}
       THEN /\ authError' = IF response = "error" THEN message
                            ELSE "Authentication was cancelled"
            /\ isLoading' = FALSE
            /\ UNCHANGED <<signInPc, signInResult, effectPc, nExchanges>>
       ELSE UNCHANGED <<authError, isLoading, signInPc, signInResult, effectPc, nExchanges>>
    /\ UNCHANGED <<request, response, codeRedeemed, nSignIns, nAuthorized>>
    /\ UNCHANGED <<fmtVars, screenVars, webVars, nativeVars>>

\* exchangeCodeAsync settles for the handleAuthSuccess of path; the token
\* endpoint redeems an authorization code once only.
ExchangeSettles(path, outcome) ==
    /\ (IF path = "signIn" THEN signInPc ELSE effectPc) = "exchange"
    /\ outcome = "accessToken" => ~codeRedeemed
    /\ codeRedeemed' = (codeRedeemed \/ outcome = "accessToken")
    /\ IF outcome = "accessToken"
       THEN /\ Await(path, "userinfo")        \* await fetch(userinfo)
            /\ UNCHANGED <<authError, isLoading>>
       ELSE IF outcome = "noAccessToken"
       THEN Catch(path, "No access token received")
       ELSE Catch(path, outcome)
    /\ UNCHANGED <<request, response, effectPending, nSignIns, nAuthorized, nExchanges>>
    /\ UNCHANGED <<fmtVars, screenVars, webVars, nativeVars>>

\* fetch(userinfo) and userInfoResponse.json() settle
UserInfoSettles(path, outcome) ==
    /\ (IF path = "signIn" THEN signInPc ELSE effectPc) = "userinfo"
    /\ IF outcome = "ok"
       THEN /\ isLoading' = FALSE
            /\ Return(path, AccessTokenResult)
            /\ UNCHANGED authError
       ELSE Catch(path, outcome)
    /\ UNCHANGED <<request, response, effectPending, codeRedeemed, nSignIns, nAuthorized,
                   nExchanges>>
    /\ UNCHANGED <<fmtVars, screenVars, webVars, nativeVars>>

-----------------------------------------------------------------------------
(* Specifications.                                                          *)

Init == FmtIdle /\ ScreenInit /\ WebInit /\ NativeIdle /\ HookInit

Next ==
    \/ \E text \in TypedTexts : SetUrl(text)
    \/ handleUrlSubmit
    \/ \E param \in RouteParams : DeepLinkEffect(param)
    \/ goHome
    \/ \E late \in BOOLEAN : handleLoad(late)
    \/ \E i \in 1..MaxTimers, granted \in BOOLEAN : enterFullscreen(i, granted)
    \/ \E late \in BOOLEAN : handleError(late)
    \/ TryAgain
    \/ reload
    \/ \E origin \in Origins, type \in MessageTypes : WindowMessage(origin, type)

\* The screen and the bridge on the web platform
Spec == Init /\ [][Next]_vars

FmtNext == FmtCall

\* formatUrl applied once to each bounded input
InitFormat == FmtInit /\ ScreenInit /\ WebIdle /\ NativeIdle /\ HookInit

SpecFormat == InitFormat /\ [][FmtNext]_vars

NativeNext ==
    \/ \E doc \in Origins : NativeMount(doc)
    \/ NativeUnmount
    \/ \E doc \in Origins : NativeNavigate(doc)
    \/ \E i \in 1..MaxNativeMounts : InitialUrlResolves(i)
    \/ \E kind \in UrlKinds : LinkingUrl(kind)
    \/ \E k \in 1..MaxResponses, outcome \in FetchOutcomes : FetchSettles(k, outcome)
    \/ \E type \in {"GOOGLE_AUTH_REQUEST", "OTHER"} : handleMessage(type)
    \/ \E result \in {"true", "false", "throws"} : CanOpenSettles(result)
    \/ \E opened \in BOOLEAN : OpenSettles(opened)

\* The bridge on a native platform
InitNative == FmtIdle /\ ScreenInit /\ WebIdle /\ NativeInit /\ HookInit

SpecNative == InitNative /\ [][NativeNext]_vars

HookNext ==
    \/ RequestLoads
    \/ signInWithGoogle
    \/ \E message \in ThrownMessages : PromptThrows(message)
    \/ \E type \in PromptTypes : PromptSettles(type)
    \/ SignInContinues
    \/ \E message \in ResponseErrorMessages : ResponseEffect(message)
    \/ \E path \in {"signIn", "effect"},
          outcome \in {"accessToken", "noAccessToken"} \cup ThrownMessages :
            ExchangeSettles(path, outcome)
    \/ \E path \in {"signIn", "effect"}, outcome \in {"ok"} \cup ThrownMessages :
            UserInfoSettles(path, outcome)

\* The useGoogleAuth hook
InitHook == FmtIdle /\ ScreenInit /\ WebIdle /\ NativeIdle /\ HookInit

SpecHook == InitHook /\ [][HookNext]_vars


-----------------------------------------------------------------------------
(* Properties of formatUrl, under SpecFormat.                               *)

\* The result is the search URL whose q, percent-decoded, is the trimmed input.
IsSearchFor(out, in) ==
    /\ out # URIError
    /\ StartsWith(out, SearchPrefix)
    /\ decodeURIComponent(SubSeq(out, Len(SearchPrefix) + 1, Len(out))) = Trim(in)

\* C1 as stated: for every non-empty input without a '.', formatUrl returns
\* the search URL whose q, percent-decoded, equals the trimmed input.
C1_NonEmptyNoDotIsSearch ==
    (fmtPc = "done" /\ fmtIn # <<>> /\ ~Includes(fmtIn, Dot))
        => IsSearchFor(fmtOut, fmtIn)

\* C1 as amended: for every input without a '.' that is non-empty after
\* trimming and holds no lone surrogate, formatUrl returns the search URL
\* whose q, percent-decoded, equals the trimmed input.
C1_TrimmedNoDotIsSearch ==
    (fmtPc = "done" /\ Trim(fmtIn) # <<>> /\ ~Includes(fmtIn, Dot) /\ IsWellFormed(fmtIn))
        => IsSearchFor(fmtOut, fmtIn)

\* formatUrl has turned a padded, dot-free input holding '%' and a non-ASCII
\* character into a search URL.
C1_Witness ==
    /\ fmtPc = "done"
    /\ Trim(fmtIn) # <<>>
    /\ Trim(fmtIn) # fmtIn
    /\ ~Includes(fmtIn, Dot)
    /\ IsWellFormed(fmtIn)
    /\ Includes(fmtIn, Percent)
    /\ Includes(fmtIn, <<55357, 56832>>)
    /\ StartsWith(fmtOut, SearchPrefix)

\* The input reaches the address branch of formatUrl.
IsAddressInput(in) == Trim(in) # <<>> /\ ~LooksLikeSearch(Trim(in))

\* C2: for every input containing '://' routed to the address branch, a
\* scheme other than http:// or https:// is left untouched, and a leading
\* http:// or https:// is stripped and the result starts with https://.
C2_AddressScheme ==
    (fmtPc = "done" /\ Includes(fmtIn, SchemeSep) /\ IsAddressInput(fmtIn))
        => IF StartsWith(Trim(fmtIn), HttpPrefix) \/ StartsWith(Trim(fmtIn), HttpsPrefix)
           THEN /\ StartsWith(fmtOut, HttpsPrefix)
                /\ fmtOut = HttpsPrefix \o StripProtocol(Trim(fmtIn))
           ELSE fmtOut = Trim(fmtIn)

\* C3: for every string s that starts with 'https://', contains a '.' and no
\* space (read widely: no white space at all), formatUrl(s) = s.
C3_Idempotent ==
    (/\ fmtPc = "done"
     /\ StartsWith(fmtIn, HttpsPrefix)
     /\ Includes(fmtIn, Dot)
     /\ \A k \in 1..Len(fmtIn) : ~IsWhiteSpace(fmtIn[k]))
        => fmtOut = fmtIn

\* C17: an input that is non-empty after trimming goes to the search branch
\* exactly when the trimmed input has no '.' or contains a space (the branch
\* yields the search URL over the whole trimmed input, or the URIError of
\* encodeURIComponent on a lone surrogate); so 'a.b c' and 'weather today'
\* become search URLs and 'openai.com' becomes 'https://openai.com'.
C17_SearchIffNoDotOrSpace ==
    (fmtPc = "done" /\ Trim(fmtIn) # <<>>)
        => LET clean == Trim(fmtIn)
               asSearch == ~Includes(clean, Dot) \/ Includes(clean, Space)
           IN /\ asSearch
                    => IF IsWellFormed(clean) THEN IsSearchFor(fmtOut, fmtIn)
                       ELSE fmtOut = URIError
              /\ ~asSearch
                    => /\ fmtOut # URIError
                       /\ ~StartsWith(fmtOut, SearchPrefix)
                       /\ fmtOut \in {clean, HttpsPrefix \o clean, StripProtocol(clean),
                                       HttpsPrefix \o StripProtocol(clean)}
              /\ fmtIn = DottedWithSpace
                    => fmtOut = SearchPrefix \o <<97, 46, 98, 37, 50, 48, 99>>
              /\ fmtIn = WeatherToday
                    => fmtOut = SearchPrefix \o <<119, 101, 97, 116, 104, 101, 114, 37, 50, 48, 116, 111, 100, 97, 121>>
              /\ fmtIn = OpenAiCom
                    => fmtOut = HttpsPrefix \o OpenAiCom

\* formatUrl has turned 'a.b c', which has a '.' and a space, into a search
\* URL.
C17_Witness ==
    /\ fmtPc = "done"
    /\ fmtIn = DottedWithSpace
    /\ Includes(fmtIn, Dot)
    /\ StartsWith(fmtOut, SearchPrefix)

-----------------------------------------------------------------------------
(* Properties of the screen and of the bridge on the web, under Spec.       *)

\* C4: when the input is empty after trimming, formatUrl returns the empty
\* Destination and handleUrlSubmit changes neither currentUrl, showWebView
\* nor error, and starts no load (no WebWebView is mounted or re-sourced).
C4_EmptySubmitIsNoOp ==
    [][(lastOp' = "handleUrlSubmit" /\ Trim(url) = <<>>)
          => /\ formatUrl(url) = <<>>
             /\ UNCHANGED <<currentUrl, showWebView, error>>
             /\ UNCHANGED <<wMounted, inst, wLoading, wCurrentUrl>>]_vars

\* handleUrlSubmit has just run on an input of white space only, after an
\* earlier load had left an error on the screen.
C4_Witness ==
    /\ lastOp = "handleUrlSubmit"
    /\ url = Space
    /\ ~showWebView
    /\ error # Null

\* C5: whenever the surface is shown, currentUrl is a search-engine query URL
\* or a string containing '://', and is never empty.
C5_DestinationInvariant ==
    showWebView =>
        /\ currentUrl # <<>>
        /\ (StartsWith(currentUrl, SearchPrefix) \/ Includes(currentUrl, SchemeSep))

\* C8: every GOOGLE_AUTH_REQUEST accepted from TrustedOrigin opens the
\* authentication flow exactly once, and the completion of a flow, arriving
\* while the iframe exists, posts exactly one GOOGLE_AUTH_RESPONSE into it.
C8_OneFlowOneResponse ==
    [][/\ authOpens' - authOpens = authRequests' - authRequests
       /\ (completions' # completions /\ IframePresent)
             => responses' = responses + 1]_vars

\* C10: while an authentication flow is pending (a handleCallback listener is
\* registered), no step starts another one: no further window.open and no
\* further listener.
C10_PendingRequestIgnored ==
    [][cbListeners # <<>>
          => (authOpens' = authOpens /\ Len(cbListeners') <= Len(cbListeners))]_vars

\* C11: while the bridge shows the error view its Destination does not
\* change, and 'Try Again' leaves the error view for Loading only: the error
\* is cleared, loading is set, and the Destination is the one that failed.
C11_RetryKeepsDestination ==
    [][/\ (wError # Null /\ wError' # Null)
            => UNCHANGED <<wCurrentUrl, currentUrl>>
       /\ (lastOp' = "tryAgain")
            => /\ wError # Null
               /\ wMounted' /\ wError' = Null /\ wLoading' = TRUE
               /\ UNCHANGED <<wCurrentUrl, currentUrl>>]_vars

\* 'Try Again' has just put the bridge back to Loading on the Destination
\* whose load had failed.
C11_Witness ==
    /\ lastOp = "tryAgain"
    /\ wMounted /\ wLoading /\ wError = Null
    /\ error = ScreenErrorMessage
    /\ wCurrentUrl = currentUrl
    /\ currentUrl # <<>>

\* The LoadState of the bridge: Idle without a WebWebView, Errored while the
\* error view is shown, else Loading or Loaded after the loading flag.
LoadStateOf(mounted, err, busy) ==
    IF ~mounted THEN "Idle"
    ELSE IF err # Null THEN "Errored"
    ELSE IF busy THEN "Loading" ELSE "Loaded"

LoadState == LoadStateOf(wMounted, wError, wLoading)

\* C12 as stated: every change of LoadState is Idle->Loading, Loading->Loaded,
\* Loading->Errored, Errored->Loading by retry, any->Loading by a load with a
\* different address, or the return to Idle when the bridge is unmounted; so
\* Loaded and Errored are entered from Loading only, and Loaded never returns
\* to Loading for the same address.
C12_LoadStateTransitions ==
    [][LET from == LoadState
           to == LoadStateOf(wMounted', wError', wLoading')
       IN from # to =>
            \/ to = "Idle"
            \/ from = "Idle" /\ to = "Loading"
            \/ from = "Loading" /\ to \in {"Loaded", "Errored"}
            \/ from = "Errored" /\ to = "Loading" /\ lastOp' = "tryAgain"
            \/ to = "Loading" /\ wCurrentUrl' # wCurrentUrl]_vars

\* C12 as amended: the changes of LoadState are those above and two more:
\* Loaded->Errored by an error event after the load, and Loaded->Loading for
\* the same address by reload. Loaded is entered from Loading only, Errored
\* never from Idle, and Idle is entered only when the screen hides or loses
\* the surface.
C12_LoadStateTransitionsWithReload ==
    [][LET from == LoadState
           to == LoadStateOf(wMounted', wError', wLoading')
       IN from # to =>
            \/ to = "Idle" /\ ~showWebView'
            \/ from = "Idle" /\ to = "Loading"
            \/ from = "Loading" /\ to = "Loaded" /\ lastOp' \in {"handleLoad", "handleLoad:late"}
            \/ from \in {"Loading", "Loaded"} /\ to = "Errored"
                  /\ lastOp' \in {"handleError", "handleError:late"}
            \/ from = "Errored" /\ to = "Loading" /\ lastOp' = "tryAgain"
            \/ from = "Loaded" /\ to = "Loading" /\ lastOp' = "reload"
                  /\ wCurrentUrl' = wCurrentUrl
            \/ from \in {"Loaded", "Errored"} /\ to = "Loading"
                  /\ wCurrentUrl' # wCurrentUrl]_vars

\* reload has put the first WebWebView, which had loaded its only Destination
\* without an error, back to Loading.
C12_Witness ==
    /\ lastOp = "reload"
    /\ LoadState = "Loading"
    /\ inst = 1
    /\ initialUrl = {}
    /\ error = Null
    /\ fsTimers # <<>>
    /\ wCurrentUrl = currentUrl

\* C13: a load or error event that belongs to a superseded address (the
\* Destination changed while that address was loading) is ignored: it changes
\* neither the bridge's nor the screen's loading and error state, and the
\* superseded address is not reported to the screen.
C13_LateCallbackIgnored ==
    [][(lastOp' \in {"handleLoad:late", "handleError:late"} /\ superseded # {})
          => /\ UNCHANGED <<wLoading, wError, loading, error>>
             /\ url' \notin superseded]_vars

\* C14: the fullscreen timer is never cancelled (it leaves only by firing),
\* and when it fires no fullscreen entry point is called, and fullscreen is
\* not entered, unless the container of the surface is mounted.
C14_NoFullscreenWithoutContainer ==
    [][/\ Len(fsTimers') < Len(fsTimers)
            => lastOp' \in {"enterFullscreen", "enterFullscreen:none"}
       /\ (lastOp' = "enterFullscreen" /\ Len(fsTimers') < Len(fsTimers))
            => IframePresent
       /\ (~fullscreen /\ fullscreen')
            => (IframePresent /\ lastOp' = "enterFullscreen")]_vars

\* The timer of a load has fired after goHome had hidden the surface, and
\* called nothing.
C14_Witness ==
    /\ lastOp = "enterFullscreen:none"
    /\ screen = "mounted"
    /\ ~showWebView
    /\ ~wMounted
    /\ ~fullscreen
    /\ fsTimers = <<>>

\* C15: on the web the Escape listener is attached exactly while the surface
\* is shown, there is never more than one, and Escape can trigger goHome
\* exactly while it is attached.
C15_EscapeListenerScoped ==
    /\ escListeners = (IF showWebView THEN 1 ELSE 0)
    /\ (ENABLED goHome) <=> (escListeners = 1)

\* Escape has hidden the surface for the second time: the listener had been
\* attached, removed, attached again, and is removed again.
C15_Witness ==
    /\ lastOp = "goHome"
    /\ inst = 2
    /\ ~showWebView
    /\ escListeners = 0

\* C16: goHome leaves the screen idle: the surface hidden, currentUrl and the
\* input empty, loading false and error null.
C16_GoHomeLeavesIdle ==
    (lastOp = "goHome")
        => /\ ~showWebView
           /\ currentUrl = <<>>
           /\ url = <<>>
           /\ loading = FALSE
           /\ error = Null

\* C21: while the bridge is mounted on the web, the screen's load state
\* mirrors the bridge's LoadState: the screen's loading flag is true exactly
\* when the bridge is Loading, and the screen's error is non-null exactly
\* when the bridge is Errored.
C21_ScreenMirrorsLoadState ==
    wMounted
        => /\ loading <=> (LoadState = "Loading")
           /\ (error # Null) <=> (LoadState = "Errored")

-----------------------------------------------------------------------------
(* Properties of useGoogleAuth, under SpecHook.                             *)

\* C18: signInWithGoogle never rejects: whatever the prompt does (success,
\* cancel, error, another type, a throw, request not initialized) the call
\* resolves with a result carrying an accessToken or an error string, and
\* isLoading is false once it has resolved.
C18_SignInAlwaysResolves ==
    /\ signInPc # "rejected"
    /\ signInPc = "resolved"
          => /\ \/ signInResult = AccessTokenResult
                \/ /\ Len(signInResult) = 2
                   /\ signInResult[1] = "error"
                   /\ signInResult[2] \in STRING
             /\ isLoading = FALSE
    /\ signInPc = "resolved" <=> signInResult # Pending

\* The second call of signInWithGoogle has resolved with the message of an
\* Error thrown after a successful prompt.
C18_Witness ==
    /\ signInPc = "resolved"
    /\ nSignIns = 2
    /\ nAuthorized = 1
    /\ response = "success"
    /\ signInResult = ErrorResult("Network request failed")
    /\ authError = "Network request failed"
    /\ isLoading = FALSE

\* C20: one successful authorization leads to one code-for-token exchange
\* (handleAuthSuccess runs once per successful prompt), and once
\* signInWithGoogle has resolved with an accessToken the error of the hook
\* is null.
C20_OneExchangePerAuthorization ==
    /\ nExchanges <= nAuthorized
    /\ (signInPc = "resolved" /\ signInResult = AccessTokenResult)
          => authError = Null

-----------------------------------------------------------------------------
(* Properties of the bridge on a native platform, under SpecNative.         *)

\* C6: a message whose origin is not TrustedOrigin changes no state of the
\* bridge and starts no authentication flow.
C6_UntrustedMessageDropped ==
    [][(nLastOp' = "handleMessage" /\ nDoc # TrustedOrigin)
          => UNCHANGED <<nRequests, canOpenPending, openPending, flowsOpen,
                         fetchPending, nOkResponses, nFailResponses>>]_vars

\* C7: every message the bridge posts is addressed to TrustedOrigin, and
\* reaches no document of another origin.
C7_OnlyTrustedTarget ==
    /\ sentTo \subseteq {TrustedOrigin}
    /\ deliveredTo \subseteq {TrustedOrigin}

\* C19: a GOOGLE_AUTH_RESPONSE is delivered only in answer to a
\* GOOGLE_AUTH_REQUEST: the responses posted never outnumber the requests
\* received.
C19_NoUnsolicitedResponse == nOkResponses + nFailResponses <= nRequests

\* C9: every failure of an exchange that a GOOGLE_AUTH_REQUEST started has
\* been answered by a GOOGLE_AUTH_RESPONSE with success: false.
C9_EveryFailureAnswered == nFailResponses >= nFailures

=============================================================================
